---- MODULE Spec2Model ----
(***************************************************************************)
(* Model of the dollop-music backend: the track catalog and the playlist   *)
(* collection engine (controllers, mongoose schemas and routers), their    *)
(* ownership / visibility rules and the load-mutate-save handlers.         *)
(***************************************************************************)
EXTENDS Integers, Sequences, FiniteSets, TLC

\* ------------------------------------------------------------------ bounds
MaxUsers == 2
MaxTracks == 2
MaxPlaylists == 1

Users == 1..MaxUsers
\* req.user is undefined: no principal is attached to the request
NoUser == 0
Callers == Users \cup {NoUser}
TrackIds == 1..MaxTracks
PlaylistIds == 1..MaxPlaylists

\* an optional request field: {} when absent, {v} when present
Opt(S) == {{}} \cup {{x} : x \in S}

Present(o) == o # {}

Val(o) == CHOOSE x \in o : TRUE

\* ------------------------------------------------------------------ state
VARIABLES
  tracks,     \* MusicTrack collection: id -> document
  playlists,  \* Playlist collection: id -> document
  resp,       \* the response of the handler that ran last
  reqs,       \* requests in flight (handlers suspended at an await)
  base,       \* history: each track's playCount before the requests in flight began
  users,      \* User collection: id -> document, in insertion order
  issued,     \* history: the refresh tokens handed out, oldest first
  fbase       \* history: each playlist's followers before the requests in flight began

vars == <<tracks, playlists, resp, reqs, base, users, issued, fbase>>

\* ------------------------------------------------------- track documents
\* the free-text attributes a request body can carry
\* title: its words and its place in string order (titleOrd)
DefaultProfile ==
  [title |-> {"test", "track"}, titleOrd |-> 2, artist |-> "Ab", genre |-> "Pop", tags |-> {}]

Profiles ==
  { DefaultProfile,
    [title |-> {"private", "track"}, titleOrd |-> 1, artist |-> "ba", genre |-> "Rock",
     tags |-> {"rock"}] }

NoTrack ==
  [st |-> "unborn", owner |-> NoUser, isPublic |-> FALSE, playCount |-> 0,
   title |-> {}, titleOrd |-> 0, artist |-> "", genre |-> "", tags |-> {}]

DeletedTrack == [NoTrack EXCEPT !.st = "deleted"]

TrackExists(t) == t \in TrackIds /\ tracks[t].st = "live"

\* a new ObjectId: one no document ever had
FreshTrackIds == {t \in TrackIds : tracks[t].st = "unborn" /\ \A s \in 1..(t - 1) : tracks[s].st # "unborn"}

\* ---------------------------------------------------- playlist documents
\* name: the words of a playlist's name and description and the name's place in
\* string order (ord)
DefaultName == [words |-> {"my", "mix"}, ord |-> 2]

PlaylistNames == {DefaultName, [words |-> {"chill"}, ord |-> 1]}

NoPlaylist ==
  [st |-> "unborn", owner |-> NoUser, isPublic |-> FALSE, tracks |-> <<>>,
   followers |-> <<>>, name |-> {}, nameOrd |-> 0]

DeletedPlaylist == [NoPlaylist EXCEPT !.st = "deleted"]

PlaylistExists(p) == p \in DOMAIN playlists /\ playlists[p].st = "live"

FreshPlaylistIds == {p \in PlaylistIds : playlists[p].st = "unborn" /\ \A q \in 1..(p - 1) : playlists[q].st # "unborn"}

Range(s) == {s[i] : i \in 1..Len(s)}

\* -------------------------------------------------------- user documents
\* an email address: its spelling with letter case ignored, and whether this
\* spelling has capital letters
Email(n, upper) == [local |-> n, upper |-> upper]

\* the address kept as it was spelled
LowercaseKeepingCase(e) == e

\* the schema's lowercase: true setter
Lowercase(e) == [e EXCEPT !.upper = FALSE]

\* bcrypt.hash(password, salt), told apart from the plaintext
Hash(pw) == <<"bcrypt", pw>>

\* the stored document of a user with the u-th username, email and password
Account(u) == [username |-> u, email |-> Email(u, FALSE), password |-> Hash(u)]

\* the accounts of the principals that send requests
RegisteredUsers == [u \in Users |-> Account(u)]

\* ------------------------------------------------------------- responses
\* pag: <<page, limit, totalItems, totalPages>> of a list response, else <<>>
\* follow: <<isFollowing, followersCount>> of a toggleFollow response, else <<>>
NoResp ==
  [op |-> "none", caller |-> NoUser, id |-> 0, arg |-> 0, status |-> 0, data |-> <<>>,
   pag |-> <<>>, follow |-> <<>>]

Response(op, caller, id, arg, status, data) ==
  [op |-> op, caller |-> caller, id |-> id, arg |-> arg, status |-> status, data |-> data,
   pag |-> <<>>, follow |-> <<>>]

\* ---------------------------------------------------------------- routing
\* the routes registered before router.use(protect): no middleware sets req.user
PublicRoutes == {"track.getAll", "track.getOne", "track.play", "playlist.getAll", "playlist.getOne"}

\* the principal protect attaches to the request for the credential presented
Protect(caller) == caller

\* req.user as the handler of route op sees it
ReqUser(op, caller) == IF op \in PublicRoutes THEN NoUser ELSE Protect(caller)

\* ------------------------------------------------------------ error kinds
\* status the error middleware gives a mongoose ValidationError
ValidationStatus == 400

\* status the error middleware gives an unhandled error (mongoose VersionError)
UnhandledStatus == 500

\* ----------------------------------------------------- requests in flight
MaxReqs == 2

ReqIds == 1..MaxReqs

\* a handler's locals: pc is where it is suspended, count and seq are the fields of
\* the document it loaded, stale is whether the stored document's version (__v) has
\* moved on since the load
IdleReq == [pc |-> "idle", op |-> "none", caller |-> NoUser, id |-> 0, arg |-> 0,
            count |-> 0, seq |-> <<>>, stale |-> FALSE, status |-> 0]

\* the object literal with the two entries the other way round, { owner, ...req.body }
CreateOwnerFromBody(body, user) == IF Present(body.owner) THEN Val(body.owner) ELSE user

\* owner of { ...req.body, owner: req.user._id }: the later entry replaces the body's
CreateOwner(body, user) == user

\* ------------------------------------------------------- track catalog
\* TrackController.create: MusicTrack.create({...req.body, owner: req.user._id})
NewTrack(body, user) ==
  [st |-> "live", owner |-> CreateOwner(body, user),
   isPublic |-> IF Present(body.isPublic) THEN Val(body.isPublic) ELSE FALSE,
   playCount |-> 0,
   title |-> body.prof.title, titleOrd |-> body.prof.titleOrd, artist |-> body.prof.artist,
   genre |-> body.prof.genre, tags |-> body.prof.tags]

\* the owner field a forged request body carries
BodyOwners == Opt({MaxUsers})

TrackCreateBodies == [prof : {DefaultProfile}, isPublic : Opt(BOOLEAN), owner : BodyOwners]

TrackCreate(caller, body) ==
  LET user == ReqUser("track.create", caller) IN
  /\ \/ /\ user = NoUser
        /\ resp' = Response("track.create", caller, 0, 0, 401, <<>>)
        /\ UNCHANGED tracks
     \/ /\ user # NoUser
        /\ \E t \in FreshTrackIds :
             /\ tracks' = [tracks EXCEPT ![t] = NewTrack(body, user)]
             /\ resp' = Response("track.create", caller, t, body.owner, 201, <<t>>)
  /\ UNCHANGED <<playlists, reqs, base, users, issued, fbase>>

\* the check with the anonymous case let through
TrackCanAccessAnonymous(track, user) ==
  ~(~track.isPublic /\ (user # NoUser /\ track.owner # user))

\* the access check of TrackController.getOne
TrackCanAccess(track, user) ==
  ~(~track.isPublic /\ (user = NoUser \/ track.owner # user))

TrackGetOneStatus(t, user) ==
  IF ~TrackExists(t) THEN 404
  ELSE IF ~TrackCanAccess(tracks[t], user) THEN 403
  ELSE 200

TrackGetOne(caller, t) ==
  LET user == ReqUser("track.getOne", caller)
      status == TrackGetOneStatus(t, user) IN
  /\ resp' = Response("track.getOne", caller, t, 0, status,
                      IF status = 200 THEN <<t>> ELSE <<>>)
  /\ UNCHANGED <<tracks, playlists, reqs, base, users, issued, fbase>>

\* the ownership check of TrackController.update and TrackController.delete
TrackIsOwner(track, user) == track.owner = user

\* Object.assign(track, req.body)
AssignTrack(track, body) ==
  [track EXCEPT
     !.isPublic = IF Present(body.isPublic) THEN Val(body.isPublic) ELSE @,
     !.owner = IF Present(body.owner) THEN Val(body.owner) ELSE @,
     !.playCount = IF Present(body.playCount) THEN Val(body.playCount) ELSE @,
     !.title = IF Present(body.prof) THEN Val(body.prof).title ELSE @,
     !.titleOrd = IF Present(body.prof) THEN Val(body.prof).titleOrd ELSE @,
     !.artist = IF Present(body.prof) THEN Val(body.prof).artist ELSE @,
     !.genre = IF Present(body.prof) THEN Val(body.prof).genre ELSE @,
     !.tags = IF Present(body.prof) THEN Val(body.prof).tags ELSE @]

TrackUpdateBodies ==
  [prof : {{}}, isPublic : Opt(BOOLEAN), owner : Opt(Users), playCount : {{}}]

\* the bodies that carry a playCount, a field the route declares no rule for
TrackPlayCountBodies ==
  [prof : {{}}, isPublic : Opt({TRUE}), owner : {{}}, playCount : Opt(-1..0)]

\* the validators of musicTrackSchema that a modified document can fail: playCount min 0
TrackValid(track) == track.playCount >= 0

TrackUpdate(caller, t, body) ==
  LET user == ReqUser("track.update", caller) IN
  /\ IF user = NoUser
       THEN /\ resp' = Response("track.update", caller, t, 0, 401, <<>>)
            /\ UNCHANGED tracks
     ELSE IF ~TrackExists(t)
       THEN /\ resp' = Response("track.update", caller, t, 0, 404, <<>>)
            /\ UNCHANGED tracks
     ELSE IF ~TrackIsOwner(tracks[t], user)
       THEN /\ resp' = Response("track.update", caller, t, 0, 403, <<>>)
            /\ UNCHANGED tracks
     ELSE IF ~TrackValid(AssignTrack(tracks[t], body))
       THEN /\ resp' = Response("track.update", caller, t, 0, ValidationStatus, <<>>)
            /\ UNCHANGED tracks
     ELSE /\ tracks' = [tracks EXCEPT ![t] = AssignTrack(@, body)]
          /\ resp' = Response("track.update", caller, t, 0, 200, <<t>>)
  /\ UNCHANGED <<playlists, reqs, base, users, issued, fbase>>

\* TrackController.delete: track.deleteOne(), and nothing else
TrackDelete(caller, t) ==
  LET user == ReqUser("track.delete", caller) IN
  /\ IF user = NoUser
       THEN /\ resp' = Response("track.delete", caller, t, 0, 401, <<>>)
            /\ UNCHANGED tracks
     ELSE IF ~TrackExists(t)
       THEN /\ resp' = Response("track.delete", caller, t, 0, 404, <<>>)
            /\ UNCHANGED tracks
     ELSE IF ~TrackIsOwner(tracks[t], user)
       THEN /\ resp' = Response("track.delete", caller, t, 0, 403, <<>>)
            /\ UNCHANGED tracks
     ELSE /\ tracks' = [tracks EXCEPT ![t] = DeletedTrack]
          /\ resp' = Response("track.delete", caller, t, 0, 200, <<>>)
  /\ UNCHANGED <<playlists, reqs, base, users, issued, fbase>>

\* --------------------------------------------- playlist collection engine
\* [...new Set(ids)]: the first occurrence of each id, in order
RECURSIVE Dedup(_)
Dedup(s) ==
  IF s = <<>> THEN <<>>
  ELSE LET r == Dedup(SubSeq(s, 1, Len(s) - 1))
           last == s[Len(s)] IN
       IF last \in Range(r) THEN r ELSE Append(r, last)

\* the validator of playlistSchema.tracks: every element must be the id of a track
TracksValid(seq) == \A i \in 1..Len(seq) : TrackExists(seq[i])

\* a save without the hook: the array stored as it was set
PreSaveTracksKeepingAll(seq) == seq

\* playlistSchema.pre('save'): this.tracks made unique
PreSaveTracks(seq) == Dedup(seq)

\* populate('tracks'): the ids that resolve to a document
Populate(seq) == SelectSeq(seq, LAMBDA t : TrackExists(t))

\* document.save() of a playlist whose tracks were set to seq: validation of the
\* modified path, then the pre-save hook; "ok" with the tracks to store, or the error
SaveTracks(doc, seq) ==
  IF seq = doc.tracks THEN [kind |-> "ok", tracks |-> doc.tracks]
  ELSE IF ~TracksValid(seq) THEN [kind |-> "ValidationError", tracks |-> doc.tracks]
  ELSE [kind |-> "ok", tracks |-> PreSaveTracks(seq)]

\* playlistSchema.methods.addTrack
AddTrackMethod(doc, t) ==
  IF t \in Range(doc.tracks) THEN [kind |-> "ok", tracks |-> doc.tracks]
  ELSE SaveTracks(doc, Append(doc.tracks, t))

\* playlistSchema.methods.removeTrack
RemoveTrackMethod(doc, t) ==
  SaveTracks(doc, SelectSeq(doc.tracks, LAMBDA x : x # t))

\* the status the error middleware answers a failed save with
ErrorStatus(kind) ==
  IF kind = "ValidationError" THEN ValidationStatus ELSE UnhandledStatus

\* the check with a public playlist taken as writable by everyone
PlaylistIsOwnerOrPublic(doc, user) == doc.owner = user \/ doc.isPublic

\* the ownership check of PlaylistController.update/delete/addTrack/removeTrack
PlaylistIsOwner(doc, user) == doc.owner = user

\* the sequences a request body can carry in tracks
TrackSeqs == {<<>>} \cup {<<t>> : t \in TrackIds} \cup {<<t, u>> : t \in TrackIds, u \in TrackIds}

\* the follower lists a forged request body carries: validateRequest passes the
\* fields it has no rule for, and no validator is declared on followers
BodyFollowers == Opt({<<MaxUsers, MaxUsers>>})

\* the bodies of a create request: the ones that carry tracks, and the forged ones
PlaylistCreateBodies ==
  [name : {DefaultName}, isPublic : Opt(BOOLEAN), tracks : Opt(TrackSeqs), owner : {{}},
   followers : {{}}]
  \cup [name : {DefaultName}, isPublic : Opt(BOOLEAN), tracks : {{}}, owner : BodyOwners,
         followers : BodyFollowers]

\* PlaylistController.create: Playlist.create({...req.body, owner: req.user._id})
PlaylistCreate(caller, body) ==
  LET user == ReqUser("playlist.create", caller)
      seq == IF Present(body.tracks) THEN Val(body.tracks) ELSE <<>> IN
  /\ \/ /\ user = NoUser
        /\ resp' = Response("playlist.create", caller, 0, 0, 401, <<>>)
        /\ UNCHANGED playlists
     \/ /\ user # NoUser
        /\ ~TracksValid(seq)
        /\ resp' = Response("playlist.create", caller, 0, 0, ValidationStatus, <<>>)
        /\ UNCHANGED playlists
     \/ /\ user # NoUser
        /\ TracksValid(seq)
        /\ \E p \in FreshPlaylistIds :
             /\ playlists' = [playlists EXCEPT ![p] =
                  [st |-> "live", owner |-> CreateOwner(body, user),
                   isPublic |-> IF Present(body.isPublic) THEN Val(body.isPublic) ELSE FALSE,
                   tracks |-> PreSaveTracks(seq),
                   followers |-> IF Present(body.followers) THEN Val(body.followers)
                                 ELSE <<>>,
                   name |-> body.name.words, nameOrd |-> body.name.ord]]
             /\ resp' = Response("playlist.create", caller, p, body.owner, 201,
                                 PreSaveTracks(seq))
  /\ UNCHANGED <<tracks, reqs, base, users, issued, fbase>>

\* the access check of PlaylistController.getOne
PlaylistCanAccess(doc, user) ==
  ~(~doc.isPublic /\ (user = NoUser \/ doc.owner # user))

PlaylistGetOne(caller, p) ==
  LET user == ReqUser("playlist.getOne", caller)
      status == IF ~PlaylistExists(p) THEN 404
                ELSE IF ~PlaylistCanAccess(playlists[p], user) THEN 403
                ELSE 200 IN
  /\ resp' = Response("playlist.getOne", caller, p, 0, status,
                      IF status = 200 THEN Populate(playlists[p].tracks) ELSE <<>>)
  /\ UNCHANGED <<tracks, playlists, reqs, base, users, issued, fbase>>

\* the guards every owner-only playlist handler runs before it mutates: 0 when passed
PlaylistGuard(op, caller, p) ==
  LET user == ReqUser(op, caller) IN
  IF user = NoUser THEN 401
  ELSE IF ~PlaylistExists(p) THEN 404
  ELSE IF ~PlaylistIsOwner(playlists[p], user) THEN 403
  ELSE 0

PlaylistUpdateBodies ==
  [name : {{}}, isPublic : Opt(BOOLEAN), tracks : Opt({<<1>>}), owner : BodyOwners]

\* the update with the followers dropped when the playlist is made private
AllowedUpdatesClearing(doc, body) ==
  [doc EXCEPT !.isPublic = IF Present(body.isPublic) THEN Val(body.isPublic) ELSE @,
              !.name = IF Present(body.name) THEN Val(body.name).words ELSE @,
              !.nameOrd = IF Present(body.name) THEN Val(body.name).ord ELSE @,
              !.followers = IF body.isPublic = {FALSE} THEN <<>> ELSE @]

\* PlaylistController.update: only name, description, coverImage, isPublic are assigned
AllowedUpdates(doc, body) ==
  [doc EXCEPT !.isPublic = IF Present(body.isPublic) THEN Val(body.isPublic) ELSE @,
              !.name = IF Present(body.name) THEN Val(body.name).words ELSE @,
              !.nameOrd = IF Present(body.name) THEN Val(body.name).ord ELSE @]

PlaylistUpdate(caller, p, body) ==
  LET g == PlaylistGuard("playlist.update", caller, p) IN
  /\ IF g # 0
       THEN /\ resp' = Response("playlist.update", caller, p, 0, g, <<>>)
            /\ UNCHANGED playlists
     ELSE /\ playlists' = [playlists EXCEPT ![p] = AllowedUpdates(@, body)]
          /\ resp' = Response("playlist.update", caller, p, 0, 200, Populate(playlists[p].tracks))
  /\ UNCHANGED <<tracks, reqs, base, users, issued, fbase>>

PlaylistDelete(caller, p) ==
  LET g == PlaylistGuard("playlist.delete", caller, p) IN
  /\ IF g # 0
       THEN /\ resp' = Response("playlist.delete", caller, p, 0, g, <<>>)
            /\ UNCHANGED playlists
     ELSE /\ playlists' = [playlists EXCEPT ![p] = DeletedPlaylist]
          /\ resp' = Response("playlist.delete", caller, p, 0, 200, <<>>)
  /\ UNCHANGED <<tracks, reqs, base, users, issued, fbase>>

\* PlaylistController.addTrack and removeTrack, the request served without interleaving
PlaylistMutateTracks(op, caller, p, t, res) ==
  LET g == PlaylistGuard(op, caller, p) IN
  /\ IF g # 0
       THEN /\ resp' = Response(op, caller, p, t, g, <<>>)
            /\ UNCHANGED playlists
     ELSE IF res.kind # "ok"
       THEN /\ resp' = Response(op, caller, p, t, ErrorStatus(res.kind), <<>>)
            /\ UNCHANGED playlists
     ELSE /\ playlists' = [playlists EXCEPT ![p].tracks = res.tracks]
          /\ resp' = Response(op, caller, p, t, 200, Populate(res.tracks))
  /\ UNCHANGED <<tracks, reqs, base, users, issued, fbase>>

PlaylistAddTrack(caller, p, t) ==
  PlaylistMutateTracks("playlist.addTrack", caller, p, t, AddTrackMethod(playlists[p], t))

PlaylistRemoveTrack(caller, p, t) ==
  PlaylistMutateTracks("playlist.removeTrack", caller, p, t, RemoveTrackMethod(playlists[p], t))

\* playlistSchema.methods.addFollower: pushed unless already included
AddFollowerMethod(followers, user) ==
  IF user \in Range(followers) THEN followers ELSE Append(followers, user)

\* playlistSchema.methods.removeFollower
RemoveFollowerMethod(followers, user) == SelectSeq(followers, LAMBDA x : x # user)

\* the followers toggleFollow stores for the playlist it loaded
ToggledFollowers(followers, user) ==
  IF user \in Range(followers) THEN RemoveFollowerMethod(followers, user)
  ELSE AddFollowerMethod(followers, user)

\* populate('followers'): the ids that resolve to a user
PopulateFollowers(followers) == SelectSeq(followers, LAMBDA u : u \in DOMAIN users)

\* PlaylistController.toggleFollow: found, then toggled; no other guard
PlaylistToggleFollow(caller, p) ==
  LET user == ReqUser("playlist.toggleFollow", caller) IN
  /\ IF user = NoUser
       THEN /\ resp' = Response("playlist.toggleFollow", caller, p, 0, 401, <<>>)
            /\ UNCHANGED playlists
     ELSE IF ~PlaylistExists(p)
       THEN /\ resp' = Response("playlist.toggleFollow", caller, p, 0, 404, <<>>)
            /\ UNCHANGED playlists
     ELSE LET isFollowing == user \in Range(playlists[p].followers)
              stored == ToggledFollowers(playlists[p].followers, user) IN
          /\ playlists' = [playlists EXCEPT ![p].followers = stored]
          /\ resp' = [Response("playlist.toggleFollow", caller, p, 0, 200, <<>>)
                        EXCEPT !.follow = <<~isFollowing, Len(PopulateFollowers(stored))>>]
  /\ UNCHANGED <<tracks, reqs, base, users, issued, fbase>>

\* --------------------------------------------- requests served one at a time
Init ==
  /\ tracks = [t \in TrackIds |-> NoTrack]
  /\ playlists = [p \in PlaylistIds |-> NoPlaylist]
  /\ resp = NoResp
  /\ reqs = [r \in ReqIds |-> IdleReq]
  /\ base = [t \in TrackIds |-> 0]
  /\ users = RegisteredUsers
  /\ issued = <<>>
  /\ fbase = [p \in PlaylistIds |-> <<>>]

Next ==
  \/ \E c \in Callers, b \in TrackCreateBodies : TrackCreate(c, b)
  \/ \E c \in Callers, t \in TrackIds : TrackGetOne(c, t)
  \/ \E c \in Callers, t \in TrackIds, b \in TrackUpdateBodies : TrackUpdate(c, t, b)
  \/ \E c \in Callers, t \in TrackIds : TrackDelete(c, t)
  \/ \E c \in Callers, b \in PlaylistCreateBodies : PlaylistCreate(c, b)
  \/ \E c \in Callers, p \in PlaylistIds : PlaylistGetOne(c, p)
  \/ \E c \in Callers, p \in PlaylistIds, b \in PlaylistUpdateBodies : PlaylistUpdate(c, p, b)
  \/ \E c \in Callers, p \in PlaylistIds : PlaylistDelete(c, p)
  \/ \E c \in Callers, p \in PlaylistIds, t \in TrackIds : PlaylistAddTrack(c, p, t)
  \/ \E c \in Callers, p \in PlaylistIds, t \in TrackIds : PlaylistRemoveTrack(c, p, t)
  \/ \E c \in Callers, p \in PlaylistIds : PlaylistToggleFollow(c, p)

Spec == Init /\ [][Next]_vars

\* creates alone, from the empty catalogs
NextCreate ==
  \/ \E c \in Callers, b \in TrackCreateBodies : TrackCreate(c, b)
  \/ \E c \in Callers, b \in PlaylistCreateBodies : PlaylistCreate(c, b)

SpecCreate == Init /\ [][NextCreate]_vars

\* ------------------------------------------------------ query / filter layer
MaxPlays == 1

\* the letters of the artist names and patterns in use
Spell(str) ==
  CASE str = "Ab" -> <<"A", "b">>
    [] str = "ba" -> <<"b", "a">>
    [] str = "B" -> <<"B">>
    [] OTHER -> <<>>

LowerChar(c) == CASE c = "A" -> "a" [] c = "B" -> "b" [] OTHER -> c

\* { $regex: pattern, $options: 'i' }: pattern occurs in hay, letter case ignored
RegexI(hay, pattern) ==
  LET h == Spell(hay)
      n == Spell(pattern) IN
  \E i \in 0..(Len(h) - Len(n)) :
    \A j \in 1..Len(n) : LowerChar(h[i + j]) = LowerChar(n[j])

\* the word the text index holds for an artist name
ArtistWord(str) == CASE str = "Ab" -> "ab" [] str = "ba" -> "ba" [] OTHER -> ""

\* the text index over title, artist and tags
TextWords(track) == track.title \cup {ArtistWord(track.artist)} \cup track.tags

\* { $text: { $search } }: some search word is indexed for the track
TextMatch(track, words) == words \cap TextWords(track) # {}

\* ignoreUndefined: { owner: undefined } taken as no condition at all
VisibleOrUndefinedOwner(track, user) ==
  track.isPublic \/ track.owner = user \/ user = NoUser

\* query.$or = [{ isPublic: true }, { owner: req.user?._id }]
Visible(track, user) == track.isPublic \/ track.owner = user

TrackQueries ==
  [search : Opt({{"private"}}), artist : Opt({"B"}), genre : Opt({"Rock"}),
   isPublic : Opt(BOOLEAN), owner : Opt(Users), tags : Opt({{"rock"}}),
   sortBy : Opt({"playCount", "title"}), sortOrder : Opt({"desc"}),
   page : Opt({2}), limit : Opt({1})]

\* the query document TrackController.getAll builds, applied to one track
TrackMatches(track, q, user) ==
  /\ track.st = "live"
  /\ Present(q.search) => TextMatch(track, Val(q.search))
  /\ Present(q.artist) => RegexI(track.artist, Val(q.artist))
  /\ Present(q.genre) => track.genre = Val(q.genre)
  /\ Present(q.isPublic) => track.isPublic = Val(q.isPublic)
  /\ Present(q.owner) => track.owner = Val(q.owner)
  /\ Present(q.tags) => Val(q.tags) \subseteq track.tags
  /\ Visible(track, user)

\* the sort key of track t: createdAt grows with the id
SortKey(t, q) ==
  IF ~Present(q.sortBy) THEN t
  ELSE IF Val(q.sortBy) = "playCount" THEN tracks[t].playCount
  ELSE tracks[t].titleOrd

\* descending when no sortBy is given (createdAt: -1) or sortOrder is 'desc'
SortDescending(q) ==
  IF ~Present(q.sortBy) THEN TRUE
  ELSE Present(q.sortOrder) /\ Val(q.sortOrder) = "desc"

\* a comes before b in the sorted result; equal keys keep the collection's order
Before(a, b, q) ==
  IF SortKey(a, q) # SortKey(b, q)
    THEN (IF SortDescending(q) THEN SortKey(a, q) > SortKey(b, q)
          ELSE SortKey(a, q) < SortKey(b, q))
  ELSE a < b

RECURSIVE Sorted(_, _)
Sorted(S, q) ==
  IF S = {} THEN <<>>
  ELSE LET first == CHOOSE a \in S : \A b \in S \ {a} : Before(a, b, q) IN
       <<first>> \o Sorted(S \ {first}, q)

\* parseInt(req.query.x) || dflt
ParseOr(o, dflt) == IF Present(o) /\ Val(o) # 0 THEN Val(o) ELSE dflt

DefaultPage == 1

DefaultLimit == 10

Min(a, b) == IF a < b THEN a ELSE b

\* Math.ceil(n / d) for d > 0
CeilDiv(n, d) == (n + d - 1) \div d

\* a page that starts one document early
PageOfOverlapping(seq, skip, limit) ==
  IF skip >= Len(seq) THEN <<>>
  ELSE SubSeq(seq, IF skip = 0 THEN 1 ELSE skip, Min(skip + limit, Len(seq)))

\* .skip(skip).limit(limit) of a sorted result
PageOf(seq, skip, limit) ==
  IF skip >= Len(seq) THEN <<>> ELSE SubSeq(seq, skip + 1, Min(skip + limit, Len(seq)))

\* the documents the query document of TrackController.getAll selects
TrackCandidates(q, user) == {t \in DOMAIN tracks : TrackMatches(tracks[t], q, user)}

\* find(query).sort(...).skip(skip).limit(limit)
TrackPage(q, user) ==
  LET page == ParseOr(q.page, DefaultPage)
      limit == ParseOr(q.limit, DefaultLimit) IN
  PageOf(Sorted(TrackCandidates(q, user), q), (page - 1) * limit, limit)

\* a negative skip is refused by the database and the error goes to next(error)
TrackGetAll(caller, q) ==
  LET user == ReqUser("track.getAll", caller)
      page == ParseOr(q.page, DefaultPage)
      limit == ParseOr(q.limit, DefaultLimit)
      skip == (page - 1) * limit
      total == Cardinality(TrackCandidates(q, user)) IN
  /\ IF skip < 0
       THEN resp' = [Response("track.getAll", caller, 0, 0, ErrorStatus("MongoServerError"), <<>>)
                       EXCEPT !.pag = <<page, limit>>]
     ELSE resp' = [Response("track.getAll", caller, 0, 0, 200, TrackPage(q, user))
                     EXCEPT !.pag = <<page, limit, total, CeilDiv(total, limit)>>]
  /\ UNCHANGED <<tracks, playlists, reqs, base, users, issued, fbase>>

\* the catalogs a run of creates, updates, plays and deletes leaves behind
TrackDocs ==
  {NoTrack, DeletedTrack} \cup
  {[st |-> "live", owner |-> o, isPublic |-> pub, playCount |-> n,
    title |-> pr.title, titleOrd |-> pr.titleOrd, artist |-> pr.artist,
    genre |-> pr.genre, tags |-> pr.tags] :
     o \in Users, pub \in BOOLEAN, n \in 0..MaxPlays, pr \in Profiles}

InitList ==
  /\ tracks \in [TrackIds -> TrackDocs]
  /\ \A t \in TrackIds : tracks[t].st = "unborn" => \A s \in t..MaxTracks : tracks[s].st = "unborn"
  /\ playlists = [p \in PlaylistIds |-> NoPlaylist]
  /\ resp = NoResp
  /\ reqs = [r \in ReqIds |-> IdleReq]
  /\ base = [t \in TrackIds |-> 0]
  /\ users = RegisteredUsers
  /\ issued = <<>>
  /\ fbase = [p \in PlaylistIds |-> <<>>]

\* one list request against each catalog
NextList ==
  \E c \in Callers, q \in TrackQueries : resp.op = "none" /\ TrackGetAll(c, q)

SpecList == InitList /\ [][NextList]_vars

\* ------------------------------------------------------- playlist listing
MaxListed == 2

PlaylistQueries ==
  [search : Opt({{"chill"}}), owner : Opt(Users),
   sort : Opt({"newest", "oldest", "nameAsc", "nameDesc", "popular"}),
   page : Opt({2}), limit : Opt({1})]

\* the query document PlaylistController.getAll builds, applied to one playlist
PlaylistMatches(doc, q, user) ==
  /\ doc.st = "live"
  /\ Present(q.search) => Val(q.search) \cap doc.name # {}
  /\ Present(q.owner) => doc.owner = Val(q.owner)
  /\ doc.isPublic \/ doc.owner = user

\* sortOptions[req.query.sort] || sortOptions.newest: the key of playlist p, larger
\* first when descending; createdAt grows with the id, and no playlist has a
\* 'followers.length' field, so 'popular' orders nothing
PlaylistSortKey(p, q) ==
  LET sort == IF Present(q.sort) THEN Val(q.sort) ELSE "newest" IN
  CASE sort \in {"newest", "oldest"} -> p
    [] sort \in {"nameAsc", "nameDesc"} -> playlists[p].nameOrd
    [] OTHER -> 0

PlaylistSortDescending(q) ==
  ~Present(q.sort) \/ Val(q.sort) \in {"newest", "nameDesc", "popular"}

PlaylistBefore(a, b, q) ==
  IF PlaylistSortKey(a, q) # PlaylistSortKey(b, q)
    THEN (IF PlaylistSortDescending(q) THEN PlaylistSortKey(a, q) > PlaylistSortKey(b, q)
          ELSE PlaylistSortKey(a, q) < PlaylistSortKey(b, q))
  ELSE a < b

RECURSIVE PlaylistSorted(_, _)
PlaylistSorted(S, q) ==
  IF S = {} THEN <<>>
  ELSE LET first == CHOOSE a \in S : \A b \in S \ {a} : PlaylistBefore(a, b, q) IN
       <<first>> \o PlaylistSorted(S \ {first}, q)

PlaylistGetAll(caller, q) ==
  LET user == ReqUser("playlist.getAll", caller)
      page == ParseOr(q.page, DefaultPage)
      limit == ParseOr(q.limit, DefaultLimit)
      skip == (page - 1) * limit
      found == {p \in DOMAIN playlists : PlaylistMatches(playlists[p], q, user)}
      total == Cardinality(found) IN
  /\ IF skip < 0
       THEN resp' = [Response("playlist.getAll", caller, 0, q, ErrorStatus("MongoServerError"), <<>>)
                       EXCEPT !.pag = <<page, limit>>]
     ELSE resp' = [Response("playlist.getAll", caller, 0, q, 200,
                            PageOf(PlaylistSorted(found, q), skip, limit))
                     EXCEPT !.pag = <<page, limit, total, CeilDiv(total, limit)>>]
  /\ UNCHANGED <<tracks, playlists, reqs, base, users, issued, fbase>>

\* the playlist collections a run of creates, updates, follows and deletes leaves
PlaylistDocs ==
  {NoPlaylist, DeletedPlaylist} \cup
  {[st |-> "live", owner |-> o, isPublic |-> pub, tracks |-> <<>>, followers |-> f,
    name |-> n.words, nameOrd |-> n.ord] :
     o \in Users, pub \in BOOLEAN, f \in {<<>>, <<MaxUsers>>}, n \in PlaylistNames}

InitPlaylists ==
  /\ tracks = [t \in TrackIds |-> NoTrack]
  /\ playlists \in [1..MaxListed -> PlaylistDocs]
  /\ \A p \in 1..MaxListed :
       playlists[p].st = "unborn" => \A q \in p..MaxListed : playlists[q].st = "unborn"
  /\ resp = NoResp
  /\ reqs = [r \in ReqIds |-> IdleReq]
  /\ base = [t \in TrackIds |-> 0]
  /\ users = RegisteredUsers
  /\ issued = <<>>
  /\ fbase = [p \in PlaylistIds |-> <<>>]

\* one read against each collection
NextPlaylists ==
  \/ \E c \in Callers, q \in PlaylistQueries : resp.op = "none" /\ PlaylistGetAll(c, q)
  \/ \E c \in Callers, p \in 1..MaxListed : resp.op = "none" /\ PlaylistGetOne(c, p)

SpecPlaylists == InitPlaylists /\ [][NextPlaylists]_vars

\* ------------------------------------------------------------------ paging
MaxPaged == 3

\* req.query.page as the client sends it: absent, negative, zero or positive
PageInputs == Opt(-1..MaxPaged)

LimitInputs == Opt(1..2)

TrackPageQueries ==
  [search : {{}}, artist : {{}}, genre : {{}}, isPublic : {{}}, owner : {{}}, tags : {{}},
   sortBy : Opt({"playCount"}), sortOrder : {{}}, page : PageInputs, limit : LimitInputs]

PlaylistPageQueries ==
  [search : {{}}, owner : {{}}, sort : {{}}, page : PageInputs, limit : LimitInputs]

PagedTrackDocs ==
  {[st |-> "live", owner |-> 1, isPublic |-> pub, playCount |-> n,
    title |-> DefaultProfile.title, titleOrd |-> DefaultProfile.titleOrd,
    artist |-> DefaultProfile.artist, genre |-> DefaultProfile.genre,
    tags |-> DefaultProfile.tags] : pub \in BOOLEAN, n \in 0..MaxPlays}

PagedPlaylistDocs ==
  {[st |-> "live", owner |-> 1, isPublic |-> pub, tracks |-> <<>>, followers |-> <<>>,
    name |-> DefaultName.words, nameOrd |-> DefaultName.ord] : pub \in BOOLEAN}

InitPages ==
  /\ tracks \in [1..MaxPaged -> PagedTrackDocs]
  /\ playlists \in [1..MaxListed -> PagedPlaylistDocs]
  /\ resp = NoResp
  /\ reqs = [r \in ReqIds |-> IdleReq]
  /\ base = [t \in TrackIds |-> 0]
  /\ users = RegisteredUsers
  /\ issued = <<>>
  /\ fbase = [p \in PlaylistIds |-> <<>>]

\* one list request against each pair of collections
NextPages ==
  \/ \E c \in Callers, q \in TrackPageQueries : resp.op = "none" /\ TrackGetAll(c, q)
  \/ \E c \in Callers, q \in PlaylistPageQueries : resp.op = "none" /\ PlaylistGetAll(c, q)

SpecPages == InitPages /\ [][NextPages]_vars

\* ---------------------------------------------------------------- reorder
\* PUT /api/v1/playlists/:id/tracks/reorder { trackIds }: the playlist router has
\* no route for it, so after protect the request falls through to the 404
\* handler of the application and no document is read or written
PlaylistReorder(caller, p, trackIds) ==
  LET user == ReqUser("playlist.reorder", caller) IN
  /\ resp' = Response("playlist.reorder", caller, p, trackIds,
                      IF user = NoUser THEN 401 ELSE 404, <<>>)
  /\ UNCHANGED <<tracks, playlists, reqs, base, users, issued, fbase>>

\* the track sequences a playlist can hold: no id twice
StoredTrackSeqs == {seq \in TrackSeqs : Dedup(seq) = seq}

InitReorder ==
  /\ tracks = [t \in TrackIds |->
                 NewTrack([prof |-> DefaultProfile, isPublic |-> {TRUE}, owner |-> {}], 1)]
  /\ playlists \in [PlaylistIds ->
       {[st |-> "live", owner |-> o, isPublic |-> pub, tracks |-> seq, followers |-> <<>>,
         name |-> DefaultName.words, nameOrd |-> DefaultName.ord] :
          o \in Users, pub \in BOOLEAN, seq \in StoredTrackSeqs}]
  /\ resp = NoResp
  /\ reqs = [r \in ReqIds |-> IdleReq]
  /\ base = [t \in TrackIds |-> 0]
  /\ users = RegisteredUsers
  /\ issued = <<>>
  /\ fbase = [p \in PlaylistIds |-> <<>>]

NextReorder ==
  \/ \E c \in Callers, p \in PlaylistIds, seq \in StoredTrackSeqs : PlaylistReorder(c, p, seq)
  \/ \E c \in Callers, p \in PlaylistIds : PlaylistGetOne(c, p)

SpecReorder == InitReorder /\ [][NextReorder]_vars

\* ------------------------------------------- handlers interleaved at awaits
Finish(r, status) == [reqs EXCEPT ![r].pc = "done", ![r].status = status]

\* TrackController.incrementPlayCount up to its first await: MusicTrack.findById
PlayLoad(r, caller, t) ==
  /\ reqs[r].pc = "idle"
  /\ reqs' = [reqs EXCEPT ![r] =
       IF TrackExists(t)
         THEN [IdleReq EXCEPT !.pc = "loaded", !.op = "track.play", !.caller = caller,
                              !.id = t, !.count = tracks[t].playCount]
       ELSE [IdleReq EXCEPT !.pc = "done", !.op = "track.play", !.caller = caller,
                            !.id = t, !.status = 404]]
  /\ UNCHANGED <<tracks, playlists, resp, base, users, issued, fbase>>

\* musicTrackSchema.methods.incrementPlayCount: this.playCount += 1 on the loaded copy
Incremented(count) == count + 1

\* the rest of the handler: track.incrementPlayCount() saves the copy's playCount
PlaySave(r) ==
  /\ reqs[r].pc = "loaded"
  /\ reqs[r].op = "track.play"
  /\ IF TrackExists(reqs[r].id)
       THEN /\ tracks' = [tracks EXCEPT ![reqs[r].id].playCount = Incremented(reqs[r].count)]
            /\ reqs' = [Finish(r, 200) EXCEPT ![r].count = Incremented(reqs[r].count)]
     ELSE /\ reqs' = Finish(r, UnhandledStatus)
          /\ UNCHANGED tracks
  /\ UNCHANGED <<playlists, resp, base, users, issued, fbase>>

\* PlaylistController.addTrack up to its first await: Playlist.findById and the guards
AddLoad(r, caller, p, t) ==
  LET g == PlaylistGuard("playlist.addTrack", caller, p)
      started == [IdleReq EXCEPT !.op = "playlist.addTrack", !.caller = caller,
                                 !.id = p, !.arg = t] IN
  /\ reqs[r].pc = "idle"
  /\ reqs' = [reqs EXCEPT ![r] =
       IF g # 0 THEN [started EXCEPT !.pc = "done", !.status = g]
       ELSE [started EXCEPT !.pc = "loaded", !.seq = playlists[p].tracks]]
  /\ UNCHANGED <<tracks, playlists, resp, base, users, issued, fbase>>

\* a save that sets the whole tracks array carries the loaded __v in its filter:
\* it finds no document when the version moved on or the playlist is gone
VersionConflict(r) == reqs[r].stale \/ ~PlaylistExists(reqs[r].id)

\* the stored __v is incremented: every other loaded copy of playlist p is stale
BumpVersion(rs, r, p) ==
  [x \in ReqIds |->
     IF x # r /\ rs[x].pc = "loaded" /\ rs[x].id = p
          /\ rs[x].op \in {"playlist.addTrack", "playlist.removeTrack",
                            "playlist.toggleFollow"}
       THEN [rs[x] EXCEPT !.stale = TRUE]
     ELSE rs[x]]

\* playlist.addTrack(trackId) on the loaded copy, then its save
AddSave(r) ==
  LET p == reqs[r].id
      res == AddTrackMethod([tracks |-> reqs[r].seq], reqs[r].arg) IN
  /\ reqs[r].pc = "loaded"
  /\ reqs[r].op = "playlist.addTrack"
  /\ IF res.kind # "ok"
       THEN /\ reqs' = Finish(r, ErrorStatus(res.kind))
            /\ UNCHANGED playlists
     ELSE IF res.tracks = reqs[r].seq
       THEN /\ reqs' = [reqs EXCEPT ![r].pc = "saved"]
            /\ UNCHANGED playlists
     ELSE IF VersionConflict(r)
       THEN /\ reqs' = Finish(r, ErrorStatus("VersionError"))
            /\ UNCHANGED playlists
     ELSE /\ playlists' = [playlists EXCEPT ![p].tracks = res.tracks]
          /\ reqs' = BumpVersion([reqs EXCEPT ![r].pc = "saved"], r, p)
  /\ UNCHANGED <<tracks, resp, base, users, issued, fbase>>

\* the rest of the handler: Playlist.findById(...).populate('tracks') and res.json
AddRespond(r) ==
  /\ reqs[r].pc = "saved"
  /\ reqs' = [Finish(r, 200) EXCEPT ![r].seq =
       IF PlaylistExists(reqs[r].id) THEN Populate(playlists[reqs[r].id].tracks) ELSE <<>>]
  /\ UNCHANGED <<tracks, playlists, resp, base, users, issued, fbase>>

\* a populated catalog and one playlist, no request begun
InitConc ==
  /\ tracks \in [TrackIds -> {d \in TrackDocs : d.st = "live" /\ d.isPublic /\ d.titleOrd = DefaultProfile.titleOrd}]
  /\ playlists \in [PlaylistIds ->
       {[st |-> "live", owner |-> o, isPublic |-> FALSE, tracks |-> q, followers |-> <<>>,
         name |-> DefaultName.words, nameOrd |-> DefaultName.ord] :
          o \in Users, q \in {<<>>, <<1>>}}]
  /\ resp = NoResp
  /\ reqs = [r \in ReqIds |-> IdleReq]
  /\ base = [t \in TrackIds |-> tracks[t].playCount]
  /\ users = RegisteredUsers
  /\ issued = <<>>
  /\ fbase = [p \in PlaylistIds |-> playlists[p].followers]

NextConc ==
  \/ \E r \in ReqIds, c \in Callers, t \in TrackIds : PlayLoad(r, c, t)
  \/ \E r \in ReqIds : PlaySave(r)
  \/ \E r \in ReqIds, c \in Users, p \in PlaylistIds, t \in TrackIds : AddLoad(r, c, p, t)
  \/ \E r \in ReqIds : AddSave(r)
  \/ \E r \in ReqIds : AddRespond(r)

SpecConc == InitConc /\ [][NextConc]_vars

\* ------------------------------------------- plays among creates and updates
\* creates and updates run between the awaits of the play requests
NextPlays ==
  \/ \E c \in Users, b \in {x \in TrackCreateBodies : ~Present(x.owner) /\ Present(x.isPublic)} :
       TrackCreate(c, b)
  \/ \E c \in Users, t \in TrackIds, b \in TrackPlayCountBodies : TrackUpdate(c, t, b)
  \/ \E r \in ReqIds, c \in Callers, t \in TrackIds : PlayLoad(r, c, t)
  \/ \E r \in ReqIds : PlaySave(r)

SpecPlays == Init /\ [][NextPlays]_vars

\* ----------------------------------- playlist membership, calls interleaved
\* PlaylistController.removeTrack up to its first await: Playlist.findById and the guards
RemoveLoad(r, caller, p, t) ==
  LET g == PlaylistGuard("playlist.removeTrack", caller, p)
      started == [IdleReq EXCEPT !.op = "playlist.removeTrack", !.caller = caller,
                                 !.id = p, !.arg = t] IN
  /\ reqs[r].pc = "idle"
  /\ reqs' = [reqs EXCEPT ![r] =
       IF g # 0 THEN [started EXCEPT !.pc = "done", !.status = g]
       ELSE [started EXCEPT !.pc = "loaded", !.seq = playlists[p].tracks]]
  /\ UNCHANGED <<tracks, playlists, resp, base, users, issued, fbase>>

\* playlist.removeTrack(trackId) on the loaded copy, then its save
RemoveSave(r) ==
  LET p == reqs[r].id
      res == RemoveTrackMethod([tracks |-> reqs[r].seq], reqs[r].arg) IN
  /\ reqs[r].pc = "loaded"
  /\ reqs[r].op = "playlist.removeTrack"
  /\ IF res.kind # "ok"
       THEN /\ reqs' = Finish(r, ErrorStatus(res.kind))
            /\ UNCHANGED playlists
     ELSE IF res.tracks = reqs[r].seq
       THEN /\ reqs' = [reqs EXCEPT ![r].pc = "saved"]
            /\ UNCHANGED playlists
     ELSE IF VersionConflict(r)
       THEN /\ reqs' = Finish(r, ErrorStatus("VersionError"))
            /\ UNCHANGED playlists
     ELSE /\ playlists' = [playlists EXCEPT ![p].tracks = res.tracks]
          /\ reqs' = BumpVersion([reqs EXCEPT ![r].pc = "saved"], r, p)
  /\ UNCHANGED <<tracks, resp, base, users, issued, fbase>>

\* create and update run between the awaits of the membership calls: neither
\* writes a stored array of a loaded playlist, so no loaded copy goes stale
NextMembers ==
  \/ \E c \in Users, b \in {x \in TrackCreateBodies : ~Present(x.owner) /\ ~Present(x.isPublic)} :
       TrackCreate(c, b)
  \/ \E c \in Users, b \in {x \in PlaylistCreateBodies : ~Present(x.owner) /\ ~Present(x.isPublic)} :
       PlaylistCreate(c, b)
  \/ \E c \in Users, p \in PlaylistIds, b \in {x \in PlaylistUpdateBodies : ~Present(x.owner)} :
       PlaylistUpdate(c, p, b)
  \/ \E r \in ReqIds, c \in Users, p \in PlaylistIds, t \in TrackIds : AddLoad(r, c, p, t)
  \/ \E r \in ReqIds : AddSave(r)
  \/ \E r \in ReqIds, c \in Users, p \in PlaylistIds, t \in TrackIds : RemoveLoad(r, c, p, t)
  \/ \E r \in ReqIds : RemoveSave(r)
  \/ \E r \in ReqIds : AddRespond(r)

SpecMembers == Init /\ [][NextMembers]_vars

\* ------------------------------------------ toggleFollow interleaved at awaits
\* PlaylistController.toggleFollow up to its first await: Playlist.findById
FollowLoad(r, caller, p) ==
  LET user == ReqUser("playlist.toggleFollow", caller)
      started == [IdleReq EXCEPT !.op = "playlist.toggleFollow", !.caller = caller,
                                 !.id = p] IN
  /\ reqs[r].pc = "idle"
  /\ reqs' = [reqs EXCEPT ![r] =
       IF user = NoUser THEN [started EXCEPT !.pc = "done", !.status = 401]
       ELSE IF ~PlaylistExists(p) THEN [started EXCEPT !.pc = "done", !.status = 404]
       ELSE [started EXCEPT !.pc = "loaded", !.seq = playlists[p].followers]]
  /\ UNCHANGED <<tracks, playlists, resp, base, users, issued, fbase>>

\* removeFollower or addFollower on the loaded copy, then its save: removeFollower
\* reassigns this.followers, a set of the whole array under the loaded __v;
\* addFollower pushes, an atomic $push onto the stored array
FollowSave(r) ==
  LET p == reqs[r].id
      user == reqs[r].caller
      isFollowing == user \in Range(reqs[r].seq)
      flag == IF isFollowing THEN 0 ELSE 1 IN
  /\ reqs[r].pc = "loaded"
  /\ reqs[r].op = "playlist.toggleFollow"
  /\ IF isFollowing
       THEN IF VersionConflict(r)
              THEN /\ reqs' = Finish(r, ErrorStatus("VersionError"))
                   /\ UNCHANGED playlists
            ELSE /\ playlists' = [playlists EXCEPT
                       ![p].followers = RemoveFollowerMethod(reqs[r].seq, user)]
                 /\ reqs' = BumpVersion([reqs EXCEPT ![r].pc = "saved", ![r].arg = flag], r, p)
     ELSE IF ~PlaylistExists(p)
       THEN /\ reqs' = Finish(r, UnhandledStatus)
            /\ UNCHANGED playlists
     ELSE /\ playlists' = [playlists EXCEPT ![p].followers = Append(@, user)]
          /\ reqs' = BumpVersion([reqs EXCEPT ![r].pc = "saved", ![r].arg = flag], r, p)
  /\ UNCHANGED <<tracks, resp, base, users, issued, fbase>>

\* the rest of the handler: Playlist.findById(...).populate('followers') and res.json
\* with isFollowing (arg: 1 when true) and followersCount (count)
FollowRespond(r) ==
  /\ reqs[r].pc = "saved"
  /\ reqs[r].op = "playlist.toggleFollow"
  /\ reqs' = [Finish(r, 200) EXCEPT ![r].count =
       IF PlaylistExists(reqs[r].id)
         THEN Len(PopulateFollowers(playlists[reqs[r].id].followers))
       ELSE 0]
  /\ UNCHANGED <<tracks, playlists, resp, base, users, issued, fbase>>

\* the owner of the followed playlist, a user who sends no request here
FollowedOwner == MaxUsers + 1

RECURSIVE SeqOf(_)
\* the members of a set of numbers, in ascending order
SeqOf(S) ==
  IF S = {} THEN <<>>
  ELSE LET least == CHOOSE x \in S : \A y \in S : x <= y IN <<least>> \o SeqOf(S \ {least})

\* one public playlist that nobody or everybody follows, no request begun
InitFollow ==
  /\ tracks = [t \in TrackIds |-> NoTrack]
  /\ playlists \in [PlaylistIds ->
       {[st |-> "live", owner |-> FollowedOwner, isPublic |-> TRUE, tracks |-> <<>>,
         followers |-> f, name |-> DefaultName.words, nameOrd |-> DefaultName.ord] :
            f \in {<<>>, SeqOf(Users)}}]
  /\ resp = NoResp
  /\ reqs = [r \in ReqIds |-> IdleReq]
  /\ base = [t \in TrackIds |-> 0]
  /\ users = [u \in 1..FollowedOwner |-> Account(u)]
  /\ issued = <<>>
  /\ fbase = [p \in PlaylistIds |-> playlists[p].followers]

NextFollow ==
  \/ \E r \in ReqIds, c \in Callers, p \in PlaylistIds : FollowLoad(r, c, p)
  \/ \E r \in ReqIds : FollowSave(r)
  \/ \E r \in ReqIds : FollowRespond(r)

SpecFollow == InitFollow /\ [][NextFollow]_vars

\* ---------------------------------------------------------- identity store
MaxAccounts == 2

MaxIssued == 3

\* the usernames, email spellings and passwords a request body carries
Names == 1..MaxAccounts

Emails == {Email(n, upper) : n \in Names, upper \in BOOLEAN}

Passwords == 1..2

\* User.findOne({ $or: [{ email }, { username }] }): the filter is cast with the
\* schema's setters, so the email is compared in lower case
FindByEmailOrUsername(email, username) ==
  {u \in DOMAIN users : users[u].email = Lowercase(email) \/ users[u].username = username}

\* User.findOne({ email })
FindByEmail(email) == {u \in DOMAIN users : users[u].email = Lowercase(email)}

\* jwt.sign({ userId: this._id }, secret, { expiresIn }): the payload and the issue
\* time, which stands for the iat claim; issue times are taken as distinct
Token(u) == [userId |-> u, iat |-> Len(issued) + 1]

\* generateAuthToken and generateRefreshToken: the tokens are signed and returned,
\* nothing is written to the user document
GenerateTokens(u) == Append(issued, Token(u))

\* AuthController.register
Register(body) ==
  /\ \/ /\ FindByEmailOrUsername(body.email, body.username) # {}
        /\ resp' = Response("auth.register", NoUser, 0, body, 400, <<"already exists">>)
        /\ UNCHANGED <<users, issued>>
     \/ /\ FindByEmailOrUsername(body.email, body.username) = {}
        /\ Len(users) < MaxAccounts
        /\ Len(issued) < MaxIssued
        /\ users' = Append(users, [username |-> body.username,
                                    email |-> Lowercase(body.email),
                                    password |-> Hash(body.password)])
        /\ issued' = GenerateTokens(Len(users) + 1)
        /\ resp' = Response("auth.register", NoUser, Len(users) + 1, body, 201,
                            <<Token(Len(users) + 1)>>)
  /\ UNCHANGED <<tracks, playlists, reqs, base, fbase>>

\* AuthController.login: userSchema declares no comparePassword method, so the call
\* on a user that was found throws a TypeError
Login(body) ==
  /\ IF FindByEmail(body.email) = {}
       THEN resp' = Response("auth.login", NoUser, 0, body, 401, <<"Invalid credentials">>)
     ELSE resp' = Response("auth.login", NoUser, 0, body, ErrorStatus("TypeError"),
                           <<"user.comparePassword is not a function">>)
  /\ UNCHANGED <<tracks, playlists, reqs, base, users, issued, fbase>>

\* User.findOne({ refreshToken }): userSchema has no refreshToken path and
\* connectDatabase sets strictQuery, so the condition is dropped from the filter and
\* the first user of the collection is found
FindByRefreshToken(token) == IF users = <<>> THEN {} ELSE {1}

\* the refresh tokens a request presents: the ones handed out, and a made-up one
ForgedToken == [userId |-> 0, iat |-> 0]

PresentedTokens == Range(issued) \cup {ForgedToken}

\* AuthController.refreshToken
RefreshToken(token) ==
  /\ Len(issued) < MaxIssued
  /\ IF FindByRefreshToken(token) = {}
       THEN /\ resp' = Response("auth.refresh", NoUser, 0, token, 401,
                                <<"Invalid refresh token">>)
            /\ UNCHANGED issued
     ELSE LET u == CHOOSE x \in FindByRefreshToken(token) : TRUE IN
          /\ issued' = GenerateTokens(u)
          /\ resp' = Response("auth.refresh", NoUser, u, token, 200, <<Token(u)>>)
  /\ UNCHANGED <<tracks, playlists, reqs, base, users, fbase>>

\* AuthController.logout: user.refreshToken = undefined sets a path the schema does
\* not have, so save() writes nothing
Logout(caller) ==
  LET user == ReqUser("auth.logout", caller) IN
  /\ IF user \notin DOMAIN users
       THEN resp' = Response("auth.logout", caller, 0, 0, 401, <<>>)
     ELSE resp' = Response("auth.logout", caller, user, 0, 200, <<>>)
  /\ UNCHANGED <<tracks, playlists, reqs, base, users, issued, fbase>>

\* ---------------------------------------------------------------- credentials
\* what a request carries in its Authorization header: nothing, a Bearer string
\* that is no JWT, or a JWT with its payload, the secret it was signed with and
\* whether its exp has passed
NoCredential == [kind |-> "none", payload |-> [userId |-> NoUser], secret |-> "none", expired |-> FALSE]

MalformedCredential == [kind |-> "malformed", payload |-> [userId |-> NoUser], secret |-> "none", expired |-> FALSE]

\* generateAuthToken: jwt.sign({ userId: this._id }, JWT_SECRET, { expiresIn })
GenerateAuthToken(u) == [kind |-> "jwt", payload |-> [userId |-> u], secret |-> "access", expired |-> FALSE]

\* generateRefreshToken: the same payload under JWT_REFRESH_SECRET
GenerateRefreshToken(u) == [kind |-> "jwt", payload |-> [userId |-> u], secret |-> "refresh", expired |-> FALSE]

\* the same token once its lifetime is over
Expired(cred) == [cred EXCEPT !.expired = TRUE]

\* jwt.verify(token, secret): the signature must be under that secret, exp not passed
JwtVerify(cred, secret) == cred.kind = "jwt" /\ cred.secret = secret /\ ~cred.expired

\* decoded.id of the JwtPayload: undefined when the payload has no id field
DecodedId(payload) == IF "id" \in DOMAIN payload THEN payload.id ELSE NoUser

\* User.findById(id): findById(undefined) is findOne({ _id: null }), no document
FindById(id) == IF id \in DOMAIN users THEN id ELSE NoUser

\* protect: the principal the middleware puts in req.user, NoUser when it answers 401
ProtectCredential(cred) ==
  IF cred.kind = "none" THEN NoUser
  ELSE IF ~JwtVerify(cred, "access") THEN NoUser
  ELSE FindById(DecodedId(cred.payload))

\* the credentials a client can present: none, garbage, and for each account the
\* access token register issued, that token expired, and its refresh token
Credentials ==
  {NoCredential, MalformedCredential}
    \cup {GenerateAuthToken(u) : u \in DOMAIN users}
    \cup {Expired(GenerateAuthToken(u)) : u \in DOMAIN users}
    \cup {GenerateRefreshToken(u) : u \in DOMAIN users}

\* a request to a route behind router.use(protect): 401 from the middleware, or
\* the handler runs with req.user and answers 200
ProtectedRequest(cred) ==
  LET user == ProtectCredential(cred) IN
  /\ IF user = NoUser
       THEN resp' = Response("protect", NoUser, NoUser, cred, 401, <<>>)
     ELSE resp' = Response("protect", user, user, cred, 200, <<>>)
  /\ UNCHANGED <<tracks, playlists, reqs, base, users, issued, fbase>>

InitAuth ==
  /\ tracks = [t \in TrackIds |-> NoTrack]
  /\ playlists = [p \in PlaylistIds |-> NoPlaylist]
  /\ resp = NoResp
  /\ reqs = [r \in ReqIds |-> IdleReq]
  /\ base = [t \in TrackIds |-> 0]
  /\ users = <<>>
  /\ issued = <<>>
  /\ fbase = [p \in PlaylistIds |-> <<>>]

NextAuth ==
  \/ \E b \in [username : Names, email : Emails, password : Passwords] : Register(b)
  \/ \E b \in [email : Emails, password : Passwords] : Login(b)
  \/ \E t \in PresentedTokens : RefreshToken(t)
  \/ \E c \in Callers : Logout(c)
  \/ \E cred \in Credentials : ProtectedRequest(cred)

SpecAuth == InitAuth /\ [][NextAuth]_vars

\* ================================================================ claims
\* how often id x occurs in sequence s
Count(s, x) == Cardinality({i \in 1..Len(s) : s[i] = x})

\* C1: a get of a private track by anyone but its owner (another user or an
\* anonymous caller) is answered 403 and carries no track data.
C1_PrivateTrackForbidden ==
  (/\ resp.op = "track.getOne"
   /\ TrackExists(resp.id)
   /\ ~tracks[resp.id].isPublic
   /\ resp.caller # tracks[resp.id].owner)
  => (resp.status = 403 /\ resp.data = <<>>)

C1_Witness ==
  /\ resp.op = "track.getOne"
  /\ TrackExists(resp.id)
  /\ ~tracks[resp.id].isPublic
  /\ resp.caller \in Users
  /\ resp.caller # tracks[resp.id].owner
  /\ resp.status = 403

\* C3: a get of a private track by its authenticated owner succeeds and returns
\* the track.
C3_OwnerGetsPrivateTrack ==
  (/\ resp.op = "track.getOne"
   /\ TrackExists(resp.id)
   /\ ~tracks[resp.id].isPublic
   /\ resp.caller = tracks[resp.id].owner)
  => (resp.status = 200 /\ resp.data = <<resp.id>>)

\* C4: after a successful delete of a track by its owner no playlist holds the
\* track's id in its track sequence.
C4_CascadeIntegrity ==
  (resp.op = "track.delete" /\ resp.status = 200)
  => \A p \in PlaylistIds :
       PlaylistExists(p) => resp.id \notin Range(playlists[p].tracks)

\* C6: addTrack by the owner with the id of an existing track succeeds and leaves
\* the id exactly once in the stored sequence; when the id was a member already
\* (the second call) the sequence is the one the first call left.
C6_AddTrackIdempotent ==
  [][(/\ resp'.op = "playlist.addTrack"
      /\ PlaylistExists(resp'.id)
      /\ resp'.caller = playlists[resp'.id].owner
      /\ TrackExists(resp'.arg))
     => (/\ resp'.status = 200
         /\ Count(playlists'[resp'.id].tracks, resp'.arg) = 1
         /\ (resp'.arg \in Range(playlists[resp'.id].tracks)
               => playlists'[resp'.id].tracks = playlists[resp'.id].tracks))]_vars

\* C8: addTrack by the owner with an id that is no existing track's is answered
\* 404 and leaves the playlist's track sequence unchanged.
C8_AddMissingTrackNotFound ==
  [][(/\ resp'.op = "playlist.addTrack"
      /\ PlaylistExists(resp'.id)
      /\ resp'.caller = playlists[resp'.id].owner
      /\ ~TrackExists(resp'.arg))
     => (/\ resp'.status = 404
         /\ playlists'[resp'.id].tracks = playlists[resp'.id].tracks)]_vars

MutatingOps ==
  {"track.update", "track.delete", "playlist.update", "playlist.delete",
   "playlist.addTrack", "playlist.removeTrack"}

\* the owner of the entity a mutating request addresses, NoUser when there is none
TargetOwner(r) ==
  IF r.op \in {"track.update", "track.delete"}
    THEN (IF TrackExists(r.id) THEN tracks[r.id].owner ELSE NoUser)
  ELSE (IF PlaylistExists(r.id) THEN playlists[r.id].owner ELSE NoUser)

\* C9: a mutating request (track update/delete, playlist update/delete/addTrack/
\* removeTrack) on an existing entity by an authenticated user who is not its
\* owner is answered 403 and changes nothing stored, public or private.
C9_OwnerOnlyMutation ==
  [][(/\ resp'.op \in MutatingOps
      /\ resp'.caller \in Users
      /\ TargetOwner(resp') # NoUser
      /\ TargetOwner(resp') # resp'.caller)
     => (resp'.status = 403 /\ tracks' = tracks /\ playlists' = playlists)]_vars

C9_Witness ==
  /\ resp.op = "playlist.addTrack"
  /\ resp.caller \in Users
  /\ PlaylistExists(resp.id)
  /\ playlists[resp.id].isPublic
  /\ playlists[resp.id].owner # resp.caller
  /\ TrackExists(resp.arg)
  /\ resp.status = 403

\* C10: removeTrack by the owner is answered 404 and changes nothing when the id
\* is not a member of the sequence; when it is a member the call succeeds and the
\* id is gone from the sequence.
C10_RemoveTrack ==
  [][(/\ resp'.op = "playlist.removeTrack"
      /\ PlaylistExists(resp'.id)
      /\ resp'.caller = playlists[resp'.id].owner)
     => IF resp'.arg \in Range(playlists[resp'.id].tracks)
          THEN /\ resp'.status = 200
               /\ resp'.arg \notin Range(playlists'[resp'.id].tracks)
          ELSE /\ resp'.status = 404
               /\ playlists' = playlists]_vars

\* C2: whatever the filters, sort and page, a track list never holds a private
\* track owned by someone other than the viewer.
C2_ListHidesForeignPrivate ==
  resp.op = "track.getAll"
  => \A i \in 1..Len(resp.data) :
       tracks[resp.data[i]].isPublic \/ tracks[resp.data[i]].owner = resp.caller

C2_Witness ==
  /\ resp.op = "track.getAll"
  /\ resp.caller \in Users
  /\ \E t \in TrackIds :
       /\ TrackExists(t)
       /\ ~tracks[t].isPublic
       /\ tracks[t].owner # resp.caller
  /\ Len(resp.data) > 0

\* the play requests on track t that were answered 200
PlaysDone(t) ==
  {r \in ReqIds : reqs[r].op = "track.play" /\ reqs[r].id = t /\ reqs[r].pc = "done"
                  /\ reqs[r].status = 200}

\* C5: once N concurrent incrementPlay calls on a track have all been answered,
\* its playCount is the value before them plus N.
C5_NoLostPlays ==
  \A t \in TrackIds :
    (\A r \in ReqIds : reqs[r].op = "track.play" /\ reqs[r].id = t => reqs[r].pc = "done")
    => tracks[t].playCount = base[t] + Cardinality(PlaysDone(t))

\* C7: two addTrack calls by the owner for distinct existing tracks, interleaved in
\* any way, are both answered 200 and leave both ids in the playlist.
C7_ConcurrentAddsKept ==
  \A r1, r2 \in ReqIds :
    (/\ r1 # r2
     /\ reqs[r1].op = "playlist.addTrack" /\ reqs[r2].op = "playlist.addTrack"
     /\ reqs[r1].pc = "done" /\ reqs[r2].pc = "done"
     /\ reqs[r1].id = reqs[r2].id
     /\ reqs[r1].arg # reqs[r2].arg
     /\ reqs[r1].caller = playlists[reqs[r1].id].owner
     /\ reqs[r2].caller = playlists[reqs[r2].id].owner)
    => (/\ reqs[r1].status = 200
        /\ reqs[r2].status = 200
        /\ {reqs[r1].arg, reqs[r2].arg} \subseteq Range(playlists[reqs[r1].id].tracks))

\* C11: toggleFollow by the owner of the playlist is answered 400 and leaves the
\* follower set unchanged.
C11_OwnerCannotFollow ==
  [][(/\ resp'.op = "playlist.toggleFollow"
      /\ PlaylistExists(resp'.id)
      /\ resp'.caller = playlists[resp'.id].owner)
     => (/\ resp'.status = 400
         /\ playlists'[resp'.id].followers = playlists[resp'.id].followers)]_vars

\* C12: toggleFollow on a private playlist by an authenticated user who is not its
\* owner is answered 403 and leaves the follower set unchanged.
C12_PrivateCannotBeFollowed ==
  [][(/\ resp'.op = "playlist.toggleFollow"
      /\ PlaylistExists(resp'.id)
      /\ ~playlists[resp'.id].isPublic
      /\ resp'.caller \in Users
      /\ resp'.caller # playlists[resp'.id].owner)
     => (/\ resp'.status = 403
         /\ playlists'[resp'.id].followers = playlists[resp'.id].followers)]_vars

\* C13: a toggleFollow answered 200 flips the caller's membership in the stored
\* follower set and leaves every other member as it was (so a second toggle by the
\* same caller restores the set); the isFollowing it returns is the caller's
\* membership in the stored set and followersCount is the size of that set.
C13_ToggleFlipsMembership ==
  [][(resp'.op = "playlist.toggleFollow" /\ resp'.status = 200)
     => LET u == resp'.caller
            old == Range(playlists[resp'.id].followers)
            new == Range(playlists'[resp'.id].followers) IN
        /\ (u \in new) <=> (u \notin old)
        /\ new \ {u} = old \ {u}
        /\ resp'.follow[1] = (u \in new)
        /\ resp'.follow[2] = Cardinality(new)]_vars

\* the toggleFollow requests on playlist p
Follows(p) == {r \in ReqIds : reqs[r].op = "playlist.toggleFollow" /\ reqs[r].id = p}

\* C14: when distinct non-owner users have each toggled once, concurrently, on a
\* public playlist that nobody followed, its follower set is exactly those users;
\* when it was followed by exactly those users, the follower set is empty.
C14_ConcurrentToggles ==
  \A p \in PlaylistIds :
    LET callers == {reqs[r].caller : r \in Follows(p)} IN
    (/\ PlaylistExists(p)
     /\ playlists[p].isPublic
     /\ Follows(p) = ReqIds
     /\ \A r \in ReqIds : reqs[r].pc = "done"
     /\ Cardinality(callers) = Cardinality(ReqIds)
     /\ callers \subseteq Users \ {playlists[p].owner}
     /\ Range(fbase[p]) \in {{}, callers})
    => Range(playlists[p].followers) = (IF fbase[p] = <<>> THEN callers ELSE {})

\* C15: an update by the owner leaves the follower set as it was, also when it
\* makes the playlist private; a get by a follower (not the owner) is answered 403
\* whenever the playlist is private and 200 whenever it is public.
C15_PrivacyKeepsFollowers ==
  [][/\ (resp'.op = "playlist.update" /\ resp'.status = 200)
          => playlists'[resp'.id].followers = playlists[resp'.id].followers
     /\ (/\ resp'.op = "playlist.getOne"
         /\ PlaylistExists(resp'.id)
         /\ resp'.caller \in Range(playlists[resp'.id].followers)
         /\ resp'.caller # playlists[resp'.id].owner)
          => resp'.status = (IF playlists[resp'.id].isPublic THEN 200 ELSE 403)]_vars

\* a follower is refused the playlist the owner made private
C15_Witness ==
  /\ resp.op = "playlist.getOne"
  /\ PlaylistExists(resp.id)
  /\ ~playlists[resp.id].isPublic
  /\ resp.caller \in Range(playlists[resp.id].followers)
  /\ resp.caller # playlists[resp.id].owner
  /\ resp.status = 403

\* C16: a get of a private playlist by anyone but its owner is answered 403; a
\* playlist list holds no private playlist of another owner, and with no filter it
\* counts exactly the public playlists and the caller's own.
C16_PrivatePlaylistsOwnerOnly ==
  /\ (/\ resp.op = "playlist.getOne"
      /\ PlaylistExists(resp.id)
      /\ ~playlists[resp.id].isPublic
      /\ resp.caller # playlists[resp.id].owner)
     => resp.status = 403
  /\ resp.op = "playlist.getAll"
     => /\ \A i \in 1..Len(resp.data) :
             playlists[resp.data[i]].isPublic \/ playlists[resp.data[i]].owner = resp.caller
        /\ (~Present(resp.arg.search) /\ ~Present(resp.arg.owner))
             => resp.pag[3] = Cardinality({p \in DOMAIN playlists :
                    /\ PlaylistExists(p)
                    /\ playlists[p].isPublic \/ playlists[p].owner = resp.caller})

\* users u and v have the same username, or the same email with letter case ignored
SameIdentity(a, b) == a.username = b.username \/ a.email.local = b.email.local

\* C17: a register whose username or email (letter case ignored) is that of an
\* existing user is refused with the 'already exists' error and creates no user;
\* no two users ever share a username or an email with letter case ignored.
C17_RegisterConflict ==
  [][/\ (/\ resp'.op = "auth.register"
         /\ \E u \in DOMAIN users : SameIdentity(users[u], resp'.arg))
          => (/\ resp'.status = 400
              /\ resp'.data = <<"already exists">>
              /\ users' = users)
     /\ \A u, v \in DOMAIN users' : u # v => ~SameIdentity(users'[u], users'[v])]_vars

\* a register with the email of an existing user, spelled in capitals, is refused
C17_Witness ==
  /\ resp.op = "auth.register"
  /\ resp.status = 400
  /\ resp.arg.email.upper
  /\ \E u \in DOMAIN users :
       /\ users[u].email.local = resp.arg.email.local
       /\ users[u].username # resp.arg.username

\* C18: a login that does not present the email and password of one user is
\* answered 401 'Invalid credentials', whether the email is unknown or the
\* password is wrong.
C18_LoginFailuresAlike ==
  (/\ resp.op = "auth.login"
   /\ ~\E u \in DOMAIN users :
         /\ users[u].email.local = resp.arg.email.local
         /\ users[u].password = Hash(resp.arg.password))
  => (resp.status = 401 /\ resp.data = <<"Invalid credentials">>)

\* token t is the refresh token handed out last to its user
IsCurrentToken(hist, t) ==
  \E i \in 1..Len(hist) :
    /\ hist[i] = t
    /\ \A j \in (i + 1)..Len(hist) : hist[j].userId # t.userId

\* C19: a refresh succeeds only when the token presented is the one handed out
\* last to its user; with any other token (never issued, or issued before a later
\* one) it is answered 401.
C19_SingleActiveRefreshToken ==
  [][(resp'.op = "auth.refresh" /\ ~IsCurrentToken(issued, resp'.arg))
     => resp'.status = 401]_vars

\* C20: the request after a successful logout of a user, when it is a refresh
\* presenting a token handed out to that user before, is answered 401.
C20_LogoutRevokes ==
  [][(/\ resp.op = "auth.logout"
      /\ resp.status = 200
      /\ resp'.op = "auth.refresh"
      /\ resp'.arg \in Range(issued)
      /\ resp'.arg.userId = resp.caller)
     => resp'.status = 401]_vars

\* C21: an unexpired access token issued to user U is accepted by protect and
\* resolves the principal to exactly U; a missing, malformed, expired or
\* otherwise invalid credential gets 401 and no principal
C21_TokenRoundTrip ==
  resp.op = "protect" =>
    IF \E u \in DOMAIN users : resp.arg = GenerateAuthToken(u)
      THEN resp.status = 200 /\ resp.caller = resp.arg.payload.userId
    ELSE resp.status = 401 /\ resp.caller = NoUser

\* the ids in both sequences
Shared(s, t) == Range(s) \cap Range(t)

C23_NonPositivePageRefused ==
  [][/\ \A c \in Callers, q \in TrackPageQueries :
          (TrackGetAll(c, q) /\ Present(q.page) /\ Val(q.page) <= 0)
            => resp'.status = ValidationStatus /\ resp'.data = <<>>
     /\ \A c \in Callers, q \in PlaylistPageQueries :
          (PlaylistGetAll(c, q) /\ Present(q.page) /\ Val(q.page) <= 0)
            => resp'.status = ValidationStatus /\ resp'.data = <<>>]_vars

\* C24: a reorder of a playlist by its owner with a permutation of the
\* playlist's current track sequence succeeds and leaves the stored sequence
\* equal to the permutation, same ids in the same order
C24_ReorderKeepsOrder ==
  [][\A c \in Users, p \in PlaylistIds, perm \in StoredTrackSeqs :
       (/\ PlaylistReorder(c, p, perm)
        /\ PlaylistExists(p)
        /\ playlists[p].owner = c
        /\ Len(perm) = Len(playlists[p].tracks)
        /\ Range(perm) = Range(playlists[p].tracks))
       => resp'.status = 200 /\ playlists'[p].tracks = perm]_vars

\* C25: the owner stored by a create of a track or a playlist is the
\* authenticated caller, also when the request body carries an owner field
\* that names another user
C25_CreateOwnerIsCaller ==
  /\ (resp.op = "track.create" /\ resp.status = 201)
       => tracks[resp.id].owner = resp.caller /\ resp.caller \in Users
  /\ (resp.op = "playlist.create" /\ resp.status = 201)
       => playlists[resp.id].owner = resp.caller /\ resp.caller \in Users

\* a track and then a playlist created by user 1 with a body naming another owner
C25_Witness ==
  /\ resp.op = "playlist.create"
  /\ resp.status = 201
  /\ Present(resp.arg)
  /\ Val(resp.arg) # resp.caller
  /\ \E t \in TrackIds : TrackExists(t) /\ tracks[t].owner # MaxUsers

\* C26: in every reachable state, under any interleaving of playlist create,
\* update, addTrack and removeTrack calls (two concurrent addTrack calls for one
\* track id among them), no playlist's stored track sequence holds an id twice
C26_TracksUnique ==
  \A p \in PlaylistIds : \A t \in TrackIds : Count(playlists[p].tracks, t) <= 1

\* two addTrack calls for the same track, both loaded before either saved, both over
C26_Witness ==
  /\ \A r \in ReqIds : reqs[r].op = "playlist.addTrack" /\ reqs[r].pc = "done"
  /\ \E r, x \in ReqIds :
       /\ r # x
       /\ reqs[r].id = reqs[x].id
       /\ reqs[r].arg = reqs[x].arg
       /\ reqs[r].status = 200
       /\ reqs[x].stale
       /\ Count(playlists[reqs[r].id].tracks, reqs[r].arg) = 1

\* C27: in every reachable state, after any sequence of playlist create, update
\* and toggleFollow calls with arbitrary request bodies, the followers of a
\* playlist never include the playlist's owner
C27_OwnerNeverFollower ==
  \A p \in PlaylistIds :
    PlaylistExists(p) => playlists[p].owner \notin Range(playlists[p].followers)

\* C28: under any interleaving of toggleFollow calls, two concurrent toggles by
\* one viewer among them, no user id occurs more than once in the stored
\* followers of a playlist
C28_FollowersUnique ==
  \A p \in PlaylistIds : \A u \in DOMAIN users : Count(playlists[p].followers, u) <= 1

\* C29: an update never changes the owner of a track or a playlist, whatever
\* the request body carries (owner, tracks or followers among it), and it writes
\* no field that is outside the allow-list
C29_OwnerImmutable ==
  [][/\ resp'.op = "track.update"
          => \A t \in TrackIds : TrackExists(t) => tracks'[t].owner = tracks[t].owner
     /\ resp'.op = "playlist.update"
          => \A p \in PlaylistIds :
               PlaylistExists(p) =>
                 /\ playlists'[p].owner = playlists[p].owner
                 /\ playlists'[p].tracks = playlists[p].tracks
                 /\ playlists'[p].followers = playlists[p].followers]_vars

\* C30: across every step of every interleaving of create, update and
\* incrementPlay, the stored playCount of an existing track is never negative,
\* never goes down, and changes only in the step that completes an incrementPlay
C30_PlayCountMonotonic ==
  [][\A t \in TrackIds :
       (TrackExists(t) /\ tracks'[t].st = "live") =>
         /\ tracks'[t].playCount >= 0
         /\ tracks'[t].playCount >= tracks[t].playCount
         /\ tracks'[t].playCount # tracks[t].playCount
              => \E r \in ReqIds : /\ reqs[r].op = "track.play"
                                   /\ reqs[r].id = t
                                   /\ reqs[r].pc = "loaded"
                                   /\ reqs'[r].pc = "done"]_vars

====
